---- MODULE Spec2Model ----
(***************************************************************************)
(* Model of the V4L2 capture backend src/backends/uvc-v4l2.cpp:            *)
(*   - query_devices: the fold that groups enumerated subdevices into      *)
(*     devices (specification SpecGroup);                                  *)
(*   - one device with its subdevices, buffer pools, the streaming thread  *)
(*     running subdevice::poll, and the caller's set_format /              *)
(*     start_streaming / stop_streaming calls (specification Spec).        *)
(* The kernel and the caller are the environment: every system call may    *)
(* succeed or fail, the kernel hands out only buffers it owns.             *)
(***************************************************************************)
EXTENDS Integers, Sequences, FiniteSets, TLC

\* ------------------------------------------------------------------------
\* Bounds and program constants
\* ------------------------------------------------------------------------

\* longest enumerated subdevice sequence given to the grouping fold
MaxSubs == 4

\* (vid, pid, mi) values the registry may yield
Vids == {1, 2}

Pids == {1, 2}

Mis == {0, 1}

\* subdevices owned by the streaming device
NumSubs == 2

\* the most buffers the kernel grants to one VIDIOC_REQBUFS (it may grant
\* fewer than the count requested)
MaxGranted == 2

\* longest tail of a modalias after its product id field
MaxTail == 1

\* longest content of a bInterfaceNumber file
MaxMiLen == 2

\* the highest USB interface number the caller claims
MaxIface == 2

\* the most claim_interface calls made on the device
MaxClaims == 3

\* modalias.size() < 14
MinModalias == 14

\* req.count = 4 in start_capture
ReqCount == 4

\* if(req.count < 2) throw
MinBuffers == 2

VARIABLES
    \* ---- query_devices ----
    input,      \* the enumerated subdevices, each <<vid, pid, mi>>
    gi,         \* position of the range-for over subdevices (1-based)
    gpc,        \* "idle" | "test" | "append" | "done"
    devices,    \* std::vector<device>: each device is its subdevices sequence
    \* ---- one device and its streaming ----
    subdevices, \* device.subdevices: per subdevice its fields and kernel side
    stop,       \* device.stop
    tpc,        \* the streaming thread: "none" | "idle" | "loop" | "cb" | "exited"
    tsubs,      \* the subs vector captured by the thread's lambda
    pidx,       \* position of poll's second range-for in tsubs (0: not in it)
    lease,      \* buf.index + 1 of the buffer dequeued and not yet re-queued (0: none)
    dq,         \* result of the VIDIOC_DQBUF of the current poll round
    nthreads,   \* threads started for the device and neither joined nor dead
    crash,      \* "none", or what ended the process (std::terminate / assert)
    cpc,        \* the caller: "idle" | "starting" | "joining"
    si,         \* position of start_streaming's range-for (0: not in it)
    capcalls,   \* subdevices start_capture was called on by the latest start_streaming
    wasStreaming, \* whether a thread was joinable when that start_streaming was entered
    last,       \* the latest completed call of the caller and how it ended
    ready,      \* positions in tsubs whose descriptor select reported ready and
                \* that the current poll round has not handled
    cbargs,     \* the arguments of the callback invocation in progress
    selerr,     \* how select failed in the latest poll round: "none" (it did
                \* not fail) | "EINTR" | "error" (any other errno)
    \* ---- one subdevice from construction to destruction ----
    lpc,        \* "new" | "ctor_threw" | "alive" | "d_unmap" | "d_close" |
                \* "destroyed" | "dtor_threw"
    lfd,        \* subdevice::fd: "none" (not opened) | "open" | "closed"
    lsub,       \* the subdevice's buffers and the kernel side of its node
    di,         \* position of the destructor's munmap loop (0: not in it)
    warns,      \* what warn_error has logged
    lerr,       \* the exception that ended the constructor or the destructor
    lcap,       \* how the latest start_capture ended ("never": not called)
    lmode,      \* the subdevice's stored width, height, format and fps, as set
                \* together by one set_format (0: as the constructor left them)
    kmode,      \* the format and the frame rate the kernel was last given for
                \* the node (0: never given one)
    \* ---- the metadata read by the constructor ----
    modalias,   \* the token read from .../device/modalias, a sequence of characters
    mifile,     \* the token in .../device/bInterfaceNumber
    ppc,        \* "read" | "done"
    parsed,     \* what the constructor made of them: the exception, vid, pid, mi
    \* ---- the USB side of one device ----
    claimed_interfaces, \* device.claimed_interfaces, a std::vector<int>
    kclaimed,   \* interfaces libusb holds claimed on the handle
    granted,    \* interfaces of which a claim has succeeded
    nclaims,    \* claim_interface calls made
    relcalls,   \* per interface, the libusb_release_interface calls made for it
    upc,        \* "open" | "joining" | "releasing" | "closed"
    ri          \* position of the destructor's loop over claimed_interfaces

gvars == <<input, gi, gpc, devices>>

lvars == <<lpc, lfd, lsub, di, warns, lerr, lcap, lmode, kmode>>

svars == <<subdevices, stop, tpc, tsubs, pidx, lease, dq, nthreads, crash, cpc, si,
           capcalls, wasStreaming, last, ready, cbargs, selerr>>

pvars == <<modalias, mifile, ppc, parsed>>

uvars == <<claimed_interfaces, kclaimed, granted, nclaims, relcalls, upc, ri>>

vars == <<gvars, svars, lvars, pvars, uvars>>

\* what the grouping steps leave alone
nonGroup == <<svars, lvars, pvars, uvars>>

\* what the steps of the device and of its thread leave alone
nonStream == <<gvars, lvars, pvars, uvars>>

\* what the steps of the single subdevice leave alone
nonLife == <<gvars, svars, pvars, uvars>>

\* what the reading of the metadata leaves alone
nonParse == <<gvars, svars, lvars, uvars>>

\* what the USB calls leave alone, the device's thread and stop flag apart
nonUsb == <<gvars, lvars, pvars>>

\* ------------------------------------------------------------------------
\* query_devices: grouping
\* ------------------------------------------------------------------------

SubTuples == Vids \X Pids \X Mis

RECURSIVE SeqsUpTo(_, _)
SeqsUpTo(S, n) ==
    IF n = 0 THEN {<<>>}
    ELSE LET shorter == SeqsUpTo(S, n - 1)
         IN  shorter \cup {Append(q, x) : q \in {r \in shorter : Len(r) = n - 1}, x \in S}

get_vid(sub) == sub[1]

get_pid(sub) == sub[2]

get_mi(sub) == sub[3]

\* device.subdevices[0]->get_vid(): reads the FIRST subdevice of the device
get_vendor_id(dev) == get_vid(dev[1])

get_product_id(dev) == get_pid(dev[1])

has_mi(dev, mi) == \E k \in 1..Len(dev) : get_mi(dev[k]) = mi

Back(devs) == devs[Len(devs)]

\* faulty variant: the duplicate-interface test is left out of the split condition
NewDeviceNeededNoMi(devs, sub) ==
    \/ devs = <<>>
    \/ get_vid(sub) # get_vendor_id(Back(devs))
    \/ get_pid(sub) # get_product_id(Back(devs))

\* faulty variant: the product id is left out of the split condition
NewDeviceNeededNoPid(devs, sub) ==
    \/ devs = <<>>
    \/ get_vid(sub) # get_vendor_id(Back(devs))
    \/ has_mi(Back(devs), get_mi(sub))

\* the condition of the if in the grouping loop (short-circuit ||)
NewDeviceNeeded(devs, sub) ==
    \/ devs = <<>>
    \/ get_vid(sub) # get_vendor_id(Back(devs))
    \/ get_pid(sub) # get_product_id(Back(devs))
    \/ has_mi(Back(devs), get_mi(sub))

\* faulty variant: the subdevice is inserted at the front of the last device
PushSubFront(devs, sub) ==
    [devs EXCEPT ![Len(devs)] = <<sub>> \o @]

\* faulty variant: the subdevice goes into a further new device
PushSubApart(devs, sub) == Append(devs, <<sub>>)

\* devices.back()->subdevices.push_back(move(sub))
PushSub(devs, sub) ==
    [devs EXCEPT ![Len(devs)] = Append(@, sub)]

\* if(...) devices.push_back(std::make_shared<device>(context));
GroupTest ==
    /\ gpc = "test"
    /\ IF gi > Len(input)
       THEN /\ gpc' = "done"
            /\ UNCHANGED <<devices, gi>>
       ELSE /\ devices' = IF NewDeviceNeeded(devices, input[gi])
                          THEN Append(devices, <<>>)
                          ELSE devices
            /\ gpc' = "append"
            /\ UNCHANGED gi
    /\ UNCHANGED input

GroupAppend ==
    /\ gpc = "append"
    /\ devices' = PushSub(devices, input[gi])
    /\ gi' = gi + 1
    /\ gpc' = "test"
    /\ UNCHANGED input

\* ------------------------------------------------------------------------
\* subdevice: buffer pool and start_capture
\* ------------------------------------------------------------------------

Subs == 1..NumSubs

\* the count VIDIOC_REQBUFS writes back into req.count when asked for asked
GrantedCounts(asked) == 0..(IF asked < MaxGranted THEN asked ELSE MaxGranted)

\* slot k stands for buffer index k - 1
Slots == 1..ReqCount

\* a pool entry: "M" start holds a live mapping, "F" start is MAP_FAILED,
\* "N" the value-initialised entry left by resize
NewSub ==
    [callback |-> FALSE,                 \* whether a callback is registered
     buffers  |-> <<>>,                  \* std::vector<buffer>
     orphaned |-> FALSE,                 \* a region mmap'ed for it is neither
                                         \* munmap'ed nor recorded in buffers
     kown     |-> {},                    \* slots queued in the kernel
     streamon |-> FALSE,                 \* VIDIOC_STREAMON in effect
     exposed  |-> [k \in Slots |-> 0]]   \* callbacks given slot k since its last VIDIOC_QBUF

CountM(bufs) == Cardinality({k \in 1..Len(bufs) : bufs[k] = "M"})

\* buffers.resize(n)
Resize(bufs, n) == [k \in 1..n |-> IF k <= Len(bufs) THEN bufs[k] ELSE "N"]

\* What the kernel answers to one start_capture: the first system call that
\* fails (or "none"), the count granted by VIDIOC_REQBUFS, the slot of a
\* failing per-buffer call.
EarlyFailures == {"VIDIOC_S_FMT", "VIDIOC_G_PARM", "VIDIOC_S_PARM", "VIDIOC_REQBUFS"}

CaptureEnvs ==
    {[failAt |-> f, n |-> 0, at |-> 0] : f \in EarlyFailures}
    \cup {[failAt |-> "none", n |-> n, at |-> 0] : n \in GrantedCounts(ReqCount)}
    \cup {e \in [failAt : {"VIDIOC_QUERYBUF", "mmap", "VIDIOC_QBUF"},
                 n : GrantedCounts(ReqCount), at : 1..ReqCount] : e.at <= e.n}
    \cup {[failAt |-> "VIDIOC_STREAMON", n |-> n, at |-> 0] : n \in GrantedCounts(ReqCount)}

\* the answers without a failing per-buffer call (VIDIOC_QUERYBUF, mmap,
\* VIDIOC_QBUF of one slot)
WholePoolEnvs == {e \in CaptureEnvs : e.at = 0}

\* whether the mapping loop or resize drops the record of a live mapping:
\* an "M" entry that is cut off by resize or assigned a new mmap result
DropsMapping(bufs, e, stopAt) ==
    \E k \in 1..Len(bufs) :
        /\ bufs[k] = "M"
        /\ \/ k > e.n
           \/ k < stopAt
           \/ k = stopAt /\ e.failAt = "mmap"

\* the buffers vector after resize and the mapping loop that stops at stopAt
MappedPool(bufs, e, stopAt) ==
    [k \in 1..e.n |->
        IF k < stopAt THEN "M"
        ELSE IF k = stopAt /\ e.failAt = "mmap" THEN "F"
        ELSE Resize(bufs, e.n)[k]]

\* if(req.count < 2) throw "Insufficient buffer memory"
InsufficientBuffers(n) == n < MinBuffers

\* subdevice::start_capture
\* yields the subdevice afterwards and the exception thrown: "none" (it
\* returned), "os_error" (throw_error, or the EINVAL message of
\* VIDIOC_REQBUFS), "insufficient" (Insufficient buffer memory)
start_capture(st, e) ==
    IF e.failAt \in EarlyFailures
    THEN [st |-> st, err |-> "os_error"]
    ELSE
    LET k1 == [st EXCEPT !.kown = {}, !.streamon = FALSE]
        stopAt == IF e.failAt \in {"VIDIOC_QUERYBUF", "mmap"} THEN e.at ELSE e.n + 1
        k2 == [k1 EXCEPT !.buffers = MappedPool(st.buffers, e, stopAt),
                         !.orphaned = @ \/ DropsMapping(st.buffers, e, stopAt)]
        qstop == IF e.failAt = "VIDIOC_QBUF" THEN e.at ELSE e.n + 1
        k3 == [k2 EXCEPT !.kown = 1..(qstop - 1),
                         !.exposed = [k \in Slots |-> IF k < qstop THEN 0 ELSE @[k]]]
    IN  IF InsufficientBuffers(e.n) THEN [st |-> k1, err |-> "insufficient"]
        ELSE IF stopAt <= e.n THEN [st |-> k2, err |-> "os_error"]
        ELSE IF qstop <= e.n THEN [st |-> k3, err |-> "os_error"]
        ELSE IF e.failAt = "VIDIOC_STREAMON" THEN [st |-> k3, err |-> "os_error"]
        ELSE [st |-> [k3 EXCEPT !.streamon = TRUE], err |-> "none"]

\* ------------------------------------------------------------------------
\* subdevice::subdevice: vendor id, product id and interface number
\* ------------------------------------------------------------------------

\* characters the id fields of the modalias tokens are made of: digits of
\* both cases and one character that is no digit
FieldChars == {"0", "6", "8", "A", "D", "a", "d", "g"}

\* every 4-character field, and the two fields of a known camera
Fields == [1..4 -> FieldChars]

SampleFields == {<<"8", "0", "8", "6">>, <<"A", "6", "6", "D">>}

Tails == {[k \in 1..n |-> "x"] : n \in 0..MaxTail}

Compose(pre, v, sep, p, tl) == pre \o v \o <<sep>> \o p \o tl

ExampleModalias ==
    <<"u", "s", "b", ":", "v", "8", "0", "8", "6", "p", "A", "6", "6", "D", "x", "x", "x", "x">>

ExampleLowered ==
    <<"u", "s", "b", ":", "v", "8", "0", "8", "6", "p", "a", "6", "6", "d", "x", "x", "x", "x">>

\* modalias tokens: of the usb shape with any vendor or product field, with
\* a wrong prefix or separator, cut short, and the example
Modaliases ==
    {Compose(<<"u", "s", "b", ":", "v">>, vp[1], "p", vp[2], tl) :
        vp \in (Fields \X SampleFields) \cup (SampleFields \X Fields), tl \in Tails}
    \cup {Compose(pre, v, sep, p, tl) :
            pre \in {<<"u", "s", "b", ":", "v">>, <<"u", "s", "b", ":", "x">>,
                     <<"p", "c", "i", ":", "v">>},
            v \in SampleFields, sep \in {"p", "q"}, p \in SampleFields, tl \in Tails}
    \cup {SubSeq(Compose(<<"u", "s", "b", ":", "v">>, v, "p", p, <<>>), 1, n) :
            v \in SampleFields, p \in SampleFields, n \in 0..(MinModalias - 1)}
    \cup {ExampleModalias, ExampleLowered}

SampleModaliases == {ExampleModalias, ExampleLowered}

\* bInterfaceNumber tokens
MiFiles == UNION {[1..n -> {"0", "1", "A", "g"}] : n \in 0..MaxMiLen}

SampleMiFiles == {<<"0", "0">>, <<"0", "1">>} \cap MiFiles

\* the characters std::hex accepts as digits, by value
LowerDigits ==
    <<"0", "1", "2", "3", "4", "5", "6", "7", "8", "9", "a", "b", "c", "d", "e", "f">>

UpperDigits ==
    <<"0", "1", "2", "3", "4", "5", "6", "7", "8", "9", "A", "B", "C", "D", "E", "F">>

IsHex(c) == \E k \in 1..Len(LowerDigits) : LowerDigits[k] = c \/ UpperDigits[k] = c

HexValue(c) == (CHOOSE k \in 1..Len(LowerDigits) : LowerDigits[k] = c \/ UpperDigits[k] = c) - 1

\* how many characters operator>> consumes: the digits up to the first
\* character that is not one
LeadingHex(s) ==
    CHOOSE n \in 0..Len(s) :
        /\ \A j \in 1..n : IsHex(s[j])
        /\ n < Len(s) => ~IsHex(s[n + 1])

\* faulty variant: the digits are weighted from the wrong end
RECURSIVE AccumulateReversed(_, _)
AccumulateReversed(s, n) ==
    IF n = 0 THEN 0 ELSE AccumulateReversed(Tail(s), n - 1) * Len(LowerDigits) + HexValue(Head(s))

RECURSIVE Accumulate(_, _)
\* the value of the first n digits of s, most significant first
Accumulate(s, n) ==
    IF n = 0 THEN 0 ELSE Accumulate(s, n - 1) * Len(LowerDigits) + HexValue(s[n])

\* std::istringstream(s) >> std::hex >> value, for s without sign, blank or
\* 0x prefix: fails when s does not begin with a digit
ReadHex(s) ==
    LET n == LeadingHex(s)
    IN  IF n = 0 THEN [ok |-> FALSE, val |-> 0] ELSE [ok |-> TRUE, val |-> Accumulate(s, n)]

UsbPrefix == <<"u", "s", "b", ":", "v">>

\* the constructor leaves by the exception err
Rejected(err) == [err |-> err, vid |-> 0, pid |-> 0, mi |-> 0]

\* !(modalias.size() < 14 || modalias.substr(0,5) != "usb:v" || modalias[9] != 'p')
ModaliasFormatOk(m) ==
    ~(Len(m) < MinModalias \/ SubSeq(m, 1, 5) # UsbPrefix \/ m[10] # "p")

\* lines 84-94 of the constructor on the tokens m (modalias) and f
\* (bInterfaceNumber); an empty token is a failed read
ParseMetadata(m, f) ==
    IF m = <<>> THEN Rejected("modalias_read")
    ELSE IF ~ModaliasFormatOk(m) THEN Rejected("modalias_format")
    ELSE LET v == ReadHex(SubSeq(m, 6, 9))
             p == ReadHex(SubSeq(m, 11, 14))
             i == ReadHex(f)
         IN  IF ~v.ok THEN Rejected("vendor_id")
             ELSE IF ~p.ok THEN Rejected("product_id")
             ELSE IF ~i.ok THEN Rejected("interface_number")
             ELSE [err |-> "none", vid |-> v.val, pid |-> p.val, mi |-> i.val]

\* the constructor reads and parses the metadata of its node
ReadMetadata ==
    /\ ppc = "read"
    /\ parsed' = ParseMetadata(modalias, mifile)
    /\ ppc' = "done"
    /\ UNCHANGED <<modalias, mifile>>

\* ------------------------------------------------------------------------
\* one subdevice: subdevice::subdevice, start_capture, ~subdevice
\* ------------------------------------------------------------------------

\* the checks of the constructor, in the order it makes them; each one
\* throws when it fails
CtorSteps ==
    <<"stat", "S_ISCHR", "modalias_read", "modalias_format", "vendor_id", "product_id",
      "interface_number", "open", "VIDIOC_QUERYCAP", "V4L2_CAP_VIDEO_CAPTURE",
      "V4L2_CAP_STREAMING">>

StepIndex(f) == CHOOSE k \in 1..Len(CtorSteps) : CtorSteps[k] = f

\* whether fd = open(...) has succeeded when the constructor is left at
\* check f ("none": it returned)
FdOpenAt(f) == f = "none" \/ StepIndex(f) > StepIndex("open")

\* subdevice::subdevice; when it throws, ~subdevice does not run (the object
\* was never constructed) and nothing else in the constructor closes fd
Construct ==
    /\ lpc = "new"
    /\ \E f \in {CtorSteps[k] : k \in 1..Len(CtorSteps)} \cup {"none"} :
          /\ lfd' = IF FdOpenAt(f) THEN "open" ELSE "none"
          /\ lpc' = IF f = "none" THEN "alive" ELSE "ctor_threw"
          /\ lerr' = f
    /\ UNCHANGED <<lsub, di, warns, lcap, lmode, kmode>>

\* the parameter sets a caller passes to set_format
Modes == {1, 2}

\* subdevice::set_format(width, height, fourcc, fps, callback)
LifeSetFormat(m) ==
    /\ lpc = "alive"
    /\ lmode' = m
    /\ lsub' = [lsub EXCEPT !.callback = TRUE]
    /\ UNCHANGED <<lpc, lfd, di, warns, lerr, lcap, kmode>>

\* faulty variant: start_capture passes zeroes instead of the members
AppliedModeZero(stored) == 0

\* what start_capture puts into fmt.fmt.pix and parm.parm.capture: the
\* members width, height, format and fps
AppliedMode(stored) == stored

\* the kernel's format and frame rate after a start_capture answered by e:
\* VIDIOC_S_FMT sets the format, VIDIOC_S_PARM the frame rate
KernelMode(k, stored, e) ==
    IF e.failAt = "VIDIOC_S_FMT" THEN k
    ELSE IF e.failAt \in {"VIDIOC_G_PARM", "VIDIOC_S_PARM"}
    THEN [k EXCEPT !.fmt = AppliedMode(stored)]
    ELSE [fmt |-> AppliedMode(stored), fps |-> AppliedMode(stored)]

\* subdevice::start_capture on the constructed subdevice, with any answers
\* of the kernel
StartCapture ==
    /\ lpc = "alive"
    /\ \E e \in CaptureEnvs :
          LET r == start_capture(lsub, e)
          IN  /\ lsub' = r.st
              /\ kmode' = KernelMode(kmode, lmode, e)
              /\ lcap' = IF r.err = "none" THEN "none"
                         ELSE IF r.err = "insufficient" THEN "insufficient"
                         ELSE e.failAt
    /\ UNCHANGED <<lpc, lfd, di, warns, lerr, lmode>>

\* ~subdevice: VIDIOC_STREAMOFF, a failure is logged
DtorStreamoff ==
    /\ lpc = "alive"
    /\ \E ok \in BOOLEAN :
          /\ lsub' = IF ok THEN [lsub EXCEPT !.streamon = FALSE, !.kown = {}] ELSE lsub
          /\ warns' = IF ok THEN warns ELSE warns \cup {"VIDIOC_STREAMOFF"}
    /\ lpc' = "d_unmap"
    /\ di' = 1
    /\ UNCHANGED <<lfd, lerr, lcap, lmode, kmode>>

\* faulty variant: the loop stops one entry short
DtorLoopEndShort(bufs) == Len(bufs) - 1

\* for(int i = 0; i < buffers.size(); i++)
DtorLoopEnd(bufs) == Len(bufs)

\* munmap(buffers[i].start, buffers[i].length): a live mapping is unmapped
\* ("U"); on MAP_FAILED or on the null start of a value-initialised entry
\* munmap fails
Munmapped(b) == IF b = "M" THEN "U" ELSE b

\* ~subdevice: one iteration of the munmap loop, a failure is logged
DtorMunmap ==
    /\ lpc = "d_unmap"
    /\ di <= DtorLoopEnd(lsub.buffers)
    /\ lsub' = [lsub EXCEPT !.buffers[di] = Munmapped(@)]
    /\ warns' = IF lsub.buffers[di] = "M" THEN warns ELSE warns \cup {"munmap"}
    /\ di' = di + 1
    /\ UNCHANGED <<lpc, lfd, lerr, lcap, lmode, kmode>>

\* ~subdevice: VIDIOC_REQBUFS with count 0; a failure is thrown out of the
\* destructor, which ends the process where the destructor is noexcept
DtorReqbufs ==
    /\ lpc = "d_unmap"
    /\ di > DtorLoopEnd(lsub.buffers)
    /\ \E ok \in BOOLEAN :
          IF ok
          THEN /\ lpc' = "d_close"
               /\ lsub' = [lsub EXCEPT !.streamon = FALSE, !.kown = {}]
               /\ lerr' = lerr
          ELSE /\ lpc' = "dtor_threw"
               /\ lsub' = lsub
               /\ lerr' = "VIDIOC_REQBUFS"
    /\ di' = 0
    /\ UNCHANGED <<lfd, warns, lcap, lmode, kmode>>

\* ~subdevice: close(fd), a failure is logged; the descriptor is given up
\* by close whether or not it reports an error
DtorClose ==
    /\ lpc = "d_close"
    /\ \E ok \in BOOLEAN : warns' = IF ok THEN warns ELSE warns \cup {"close"}
    /\ lfd' = "closed"
    /\ lpc' = "destroyed"
    /\ UNCHANGED <<lsub, di, lerr, lcap, lmode, kmode>>

\* ------------------------------------------------------------------------
\* device: set_subdevice_mode, start_streaming, stop_streaming
\* ------------------------------------------------------------------------

Alive == crash = "none"

\* no VIDIOC_DQBUF was issued in the current poll round
NoDq == [sub |-> 0, res |-> "none"]

Joinable == tpc # "none"

RECURSIVE ActiveFrom(_, _)
\* the subs vector start_streaming collects: the subdevices with a callback, in order
ActiveFrom(sd, k) ==
    IF k > NumSubs THEN <<>>
    ELSE (IF sd[k].callback THEN <<k>> ELSE <<>>) \o ActiveFrom(sd, k + 1)

\* faulty variant: every owned subdevice is collected, with or without a callback
ActiveSubsAll(sd) == [k \in 1..NumSubs |-> k]

ActiveSubs(sd) == ActiveFrom(sd, 1)

\* how the latest call ended: the call, the subdevice it failed on or was
\* about (0: none), the exception ("none": it returned; "noop": it returned
\* having done nothing)
Done(op, s, err) == [op |-> op, sub |-> s, err |-> err]

\* no call has completed since the latest one was entered
NoCall == Done("none", 0, "none")

\* set_subdevice_mode -> subdevice::set_format, called with a callable
\* callback; the caller configures only while no streaming thread runs.
\* Of the members set_format assigns, the streaming of a device depends on
\* the callback only; width, height, format and fps are followed for one
\* subdevice by LifeSetFormat.
SetFormat(s) ==
    /\ Alive /\ cpc = "idle" /\ ~Joinable
    /\ subdevices' = [subdevices EXCEPT ![s].callback = TRUE]
    /\ last' = Done("set_format", s, "none")
    /\ capcalls' = {}
    /\ wasStreaming' = FALSE
    /\ UNCHANGED <<stop, tpc, tsubs, pidx, lease, dq, nthreads, crash, cpc, si, ready, cbargs, selerr>>

\* start_streaming is entered
StartStreamingBegin ==
    /\ Alive /\ cpc = "idle"
    /\ cpc' = "starting"
    /\ si' = 1
    /\ capcalls' = {}
    /\ wasStreaming' = Joinable
    /\ last' = NoCall
    /\ UNCHANGED <<subdevices, stop, tpc, tsubs, pidx, lease, dq, nthreads, crash, ready, cbargs, selerr>>

\* one iteration of for(auto & sub : device.subdevices)
StartStreamingStep ==
    /\ Alive /\ cpc = "starting" /\ si <= NumSubs
    /\ IF ~subdevices[si].callback
       THEN /\ si' = si + 1
            /\ UNCHANGED <<subdevices, capcalls, cpc, last>>
       ELSE \E e \in WholePoolEnvs :
                LET r == start_capture(subdevices[si], e)
                IN  /\ subdevices' = [subdevices EXCEPT ![si] = r.st]
                    /\ capcalls' = capcalls \cup {si}
                    /\ IF r.err = "none"
                       THEN /\ si' = si + 1
                            /\ UNCHANGED <<cpc, last>>
                       ELSE /\ si' = 0
                            /\ cpc' = "idle"
                            /\ last' = Done("start_streaming", si, r.err)
    /\ UNCHANGED <<stop, tpc, tsubs, pidx, lease, dq, nthreads, crash, wasStreaming, ready, cbargs, selerr>>

\* device.thread = std::thread(...): the new thread is started, then it is
\* move-assigned; assigning to a joinable std::thread calls std::terminate
StartStreamingSpawn ==
    /\ Alive /\ cpc = "starting" /\ si > NumSubs
    /\ nthreads' = nthreads + 1
    /\ IF Joinable
       THEN /\ crash' = "thread_assign"
            /\ UNCHANGED <<tpc, tsubs, cpc, si, last>>
       ELSE /\ tpc' = "idle"
            /\ tsubs' = ActiveSubs(subdevices)
            /\ cpc' = "idle"
            /\ si' = 0
            /\ last' = Done("start_streaming", 0, "none")
            /\ UNCHANGED crash
    /\ UNCHANGED <<subdevices, stop, pidx, lease, dq, capcalls, wasStreaming, ready, cbargs, selerr>>

\* stop_streaming up to thread.join(), or all of it when no thread is joinable
StopStreamingBegin ==
    /\ Alive /\ cpc = "idle"
    /\ IF Joinable
       THEN /\ stop' = TRUE
            /\ cpc' = "joining"
            /\ last' = NoCall
       ELSE /\ last' = Done("stop_streaming", 0, "noop")
            /\ UNCHANGED <<stop, cpc>>
    /\ capcalls' = {}
    /\ wasStreaming' = FALSE
    /\ UNCHANGED <<subdevices, tpc, tsubs, pidx, lease, dq, nthreads, crash, si, ready, cbargs, selerr>>

\* faulty variant: the flag is not cleared after the join
StopStreamingJoinKeepsFlag ==
    /\ Alive /\ cpc = "joining" /\ tpc = "exited"
    /\ tpc' = "none"
    /\ tsubs' = <<>>
    /\ nthreads' = nthreads - 1
    /\ cpc' = "idle"
    /\ last' = Done("stop_streaming", 0, "none")
    /\ dq' = NoDq
    /\ UNCHANGED <<subdevices, stop, pidx, lease, crash, si, capcalls, wasStreaming, ready, cbargs, selerr>>

\* thread.join() returns; device.stop = false
StopStreamingJoin ==
    /\ Alive /\ cpc = "joining" /\ tpc = "exited"
    /\ tpc' = "none"
    /\ tsubs' = <<>>
    /\ nthreads' = nthreads - 1
    /\ stop' = FALSE
    /\ cpc' = "idle"
    /\ last' = Done("stop_streaming", 0, "none")
    /\ dq' = NoDq
    /\ UNCHANGED <<subdevices, pidx, lease, crash, si, capcalls, wasStreaming, ready, cbargs, selerr>>

\* ------------------------------------------------------------------------
\* device: claim_interface, ~device
\* ------------------------------------------------------------------------

Ifaces == 0..MaxIface

\* the answers of libusb_claim_interface: claiming an interface the handle
\* already holds returns 0 without doing anything, any other claim succeeds
\* or fails
ClaimAnswers(n) == IF n \in kclaimed THEN {TRUE} ELSE BOOLEAN

\* claim_interface(device, guid, interface_number)
ClaimInterface(n) ==
    /\ upc = "open" /\ nclaims < MaxClaims
    /\ nclaims' = nclaims + 1
    /\ \E ok \in ClaimAnswers(n) :
          IF ok
          THEN /\ kclaimed' = kclaimed \cup {n}
               /\ granted' = granted \cup {n}
               /\ claimed_interfaces' = Append(claimed_interfaces, n)
          ELSE \* status < 0: throw
               UNCHANGED <<kclaimed, granted, claimed_interfaces>>
    /\ UNCHANGED <<relcalls, upc, ri>>

\* faulty variant: the destructor never stops and joins the thread
DtorJoinsNever == FALSE

\* ~device: if(thread.joinable())
DtorJoins == Joinable

\* ~device, up to the loop over claimed_interfaces when no thread is joinable
DeviceDtorBegin ==
    /\ Alive /\ cpc = "idle" /\ upc = "open"
    /\ IF DtorJoins
       THEN /\ stop' = TRUE
            /\ upc' = "joining"
            /\ ri' = ri
       ELSE /\ stop' = stop
            /\ upc' = "releasing"
            /\ ri' = 1
    /\ UNCHANGED <<claimed_interfaces, kclaimed, granted, nclaims, relcalls>>
    /\ UNCHANGED <<subdevices, tpc, tsubs, pidx, lease, dq, nthreads, crash, cpc, si,
                   capcalls, wasStreaming, last, ready, cbargs, selerr>>

\* ~device: thread.join() returns; the loop over claimed_interfaces begins
DeviceDtorJoin ==
    /\ Alive /\ upc = "joining" /\ tpc = "exited"
    /\ tpc' = "none"
    /\ tsubs' = <<>>
    /\ nthreads' = nthreads - 1
    /\ dq' = NoDq
    /\ upc' = "releasing"
    /\ ri' = 1
    /\ UNCHANGED <<claimed_interfaces, kclaimed, granted, nclaims, relcalls>>
    /\ UNCHANGED <<subdevices, stop, pidx, lease, crash, cpc, si, capcalls,
                   wasStreaming, last, ready, cbargs, selerr>>

\* ~device: one iteration of for(auto interface_number : claimed_interfaces);
\* libusb_release_interface fails on an interface that is not claimed, and
\* a failure is only logged
DeviceDtorRelease ==
    /\ upc = "releasing" /\ ri <= Len(claimed_interfaces)
    /\ LET n == claimed_interfaces[ri] IN
          /\ relcalls' = [relcalls EXCEPT ![n] = @ + 1]
          /\ \E ok \in (IF n \in kclaimed THEN BOOLEAN ELSE {FALSE}) :
                kclaimed' = IF ok THEN kclaimed \ {n} ELSE kclaimed
    /\ ri' = ri + 1
    /\ UNCHANGED <<claimed_interfaces, granted, nclaims, upc>>
    /\ UNCHANGED svars

\* ~device: the loop is over; libusb_close, libusb_unref_device
DeviceDtorClose ==
    /\ upc = "releasing" /\ ri > Len(claimed_interfaces)
    /\ upc' = "closed"
    /\ ri' = 0
    /\ UNCHANGED <<claimed_interfaces, kclaimed, granted, nclaims, relcalls>>
    /\ UNCHANGED svars

\* ------------------------------------------------------------------------
\* the streaming thread: while(!device.stop) subdevice::poll(subs)
\* ------------------------------------------------------------------------

\* what select can leave in fds when it returns 0 or more: any set of the
\* descriptors given to it (none on timeout), as positions in subs
SelectAnswers(subs) == SUBSET (1..Len(subs))

\* what the thread's read of device.stop can yield: the flag is a volatile
\* bool that the caller writes without synchronisation, so a flag that was
\* just raised may not be seen yet
StopReads == IF stop THEN {TRUE, FALSE} ELSE {FALSE}

\* faulty variant: EINTR is not told apart from the other failures of select
SelectFailureThrows(errno) == "throw"

\* what poll does when select returns < 0 with errno
SelectFailure(errno) == IF errno = "EINTR" THEN "return" ELSE "throw"

\* the loop condition, then poll up to the return of select
ThreadIterate ==
    /\ Alive /\ tpc = "idle"
    /\ \E seen \in StopReads :
       IF seen
       THEN /\ tpc' = "exited"
            /\ ready' = {}
            /\ selerr' = "none"
            /\ UNCHANGED <<pidx, dq, crash>>
       ELSE \E sel \in {"ok", "EINTR", "error"} :
                /\ dq' = NoDq
                /\ IF sel = "ok"
                   THEN /\ tpc' = "loop"
                        /\ pidx' = 1
                        /\ ready' \in SelectAnswers(tsubs)
                        /\ selerr' = "none"
                        /\ UNCHANGED crash
                   ELSE /\ ready' = {}
                        /\ selerr' = sel
                        /\ IF SelectFailure(sel) = "return"
                           THEN UNCHANGED <<tpc, pidx, crash>>
                           ELSE /\ crash' = "select"
                                /\ UNCHANGED <<tpc, pidx>>
    /\ UNCHANGED <<subdevices, stop, tsubs, lease, nthreads, cpc, si, capcalls,
                   wasStreaming, last, cbargs>>

\* the thread reads the raised flag and leaves its loop
ThreadExit == ThreadIterate /\ tpc' = "exited"

\* faulty variant: EAGAIN is not told apart from the other failures
DqbufFailureThrows(errno) == "throw"

\* what poll does when VIDIOC_DQBUF fails with errno
DqbufFailure(errno) == IF errno = "EAGAIN" THEN "return" ELSE "throw"

\* faulty variant: the callback is always given the first buffer
DeliveredSlotFirst(idx) == 1

\* the slot whose address is passed to the callback for dequeued slot idx
DeliveredSlot(idx) == idx

\* kernel-reported buf.bytesused values
BytesUsed == {0, 1}

\* the arguments of sub->callback(sub->buffers[buf.index].start): the
\* callback type is std::function<void(const void *)>
CallbackArgs(slot, bytesused) == <<slot>>

\* the answers the kernel can give to VIDIOC_DQBUF on subdevice st: a queued
\* buffer of a streaming subdevice, or a failure
DqbufAnswers(st) ==
    {[res |-> "ok", idx |-> k] : k \in IF st.streamon THEN st.kown ELSE {}}
    \cup {[res |-> "EAGAIN", idx |-> 0], [res |-> "error", idx |-> 0]}

\* one iteration of poll's for(auto * sub : subdevices), up to the call of
\* the callback
ThreadLoop ==
    /\ Alive /\ tpc = "loop"
    /\ IF pidx > Len(tsubs)
       THEN /\ tpc' = "idle"
            /\ pidx' = 0
            /\ UNCHANGED <<subdevices, lease, dq, crash, ready, cbargs>>
       ELSE IF pidx \notin ready
       THEN \* !FD_ISSET(sub->fd, &fds)
            /\ pidx' = pidx + 1
            /\ UNCHANGED <<subdevices, tpc, lease, dq, crash, ready, cbargs>>
       ELSE LET s == tsubs[pidx] IN
            \E a \in DqbufAnswers(subdevices[s]) :
                 /\ dq' = [sub |-> s, res |-> a.res]
                 /\ ready' = ready \ {pidx}
                 /\ IF a.res = "ok"
                    THEN IF a.idx > Len(subdevices[s].buffers)
                         THEN /\ crash' = "assert"
                              /\ subdevices' = [subdevices EXCEPT ![s].kown = @ \ {a.idx}]
                              /\ UNCHANGED <<tpc, pidx, lease, cbargs>>
                         ELSE IF ~subdevices[s].callback
                         THEN /\ crash' = "bad_function_call"
                              /\ subdevices' = [subdevices EXCEPT ![s].kown = @ \ {a.idx}]
                              /\ UNCHANGED <<tpc, pidx, lease, cbargs>>
                         ELSE /\ subdevices' =
                                   [subdevices EXCEPT
                                      ![s].kown = @ \ {a.idx},
                                      ![s].exposed[DeliveredSlot(a.idx)] =
                                          IF @ < 2 THEN @ + 1 ELSE @]
                              /\ lease' = a.idx
                              /\ \E used \in BytesUsed :
                                    cbargs' = CallbackArgs(DeliveredSlot(a.idx), used)
                              /\ tpc' = "cb"
                              /\ UNCHANGED <<pidx, crash>>
                    ELSE IF DqbufFailure(a.res) = "return"
                         THEN /\ tpc' = "idle"
                              /\ pidx' = 0
                              /\ UNCHANGED <<subdevices, lease, crash, cbargs>>
                         ELSE /\ crash' = "VIDIOC_DQBUF"
                              /\ UNCHANGED <<subdevices, tpc, pidx, lease, cbargs>>
    /\ UNCHANGED <<stop, tsubs, nthreads, cpc, si, capcalls, wasStreaming, last, selerr>>

\* the callback returns; xioctl(sub->fd, VIDIOC_QBUF, &buf)
ThreadRequeue ==
    /\ Alive /\ tpc = "cb"
    /\ LET s == tsubs[pidx] IN
       \E ok \in BOOLEAN :
         IF ok
         THEN /\ subdevices' = [subdevices EXCEPT ![s].kown = @ \cup {lease},
                                                  ![s].exposed[lease] = 0]
              /\ lease' = 0
              /\ cbargs' = <<>>
              /\ dq' = NoDq
              /\ pidx' = pidx + 1
              /\ tpc' = "loop"
              /\ UNCHANGED crash
         ELSE /\ crash' = "VIDIOC_QBUF"
              /\ UNCHANGED <<subdevices, lease, dq, pidx, tpc, cbargs>>
    /\ UNCHANGED <<stop, tsubs, nthreads, cpc, si, capcalls, wasStreaming, last, ready,
                   selerr>>

\* ------------------------------------------------------------------------
\* specifications
\* ------------------------------------------------------------------------

\* the device as query_devices returns it, before any call on it
InitStream ==
    /\ subdevices = [s \in Subs |-> NewSub]
    /\ stop = FALSE
    /\ tpc = "none"
    /\ tsubs = <<>>
    /\ pidx = 0
    /\ lease = 0
    /\ dq = NoDq
    /\ nthreads = 0
    /\ crash = "none"
    /\ cpc = "idle"
    /\ si = 0
    /\ capcalls = {}
    /\ wasStreaming = FALSE
    /\ last = NoCall
    /\ ready = {}
    /\ cbargs = <<>>
    /\ selerr = "none"

\* a subdevice that is about to be constructed
InitLife ==
    /\ lpc = "new"
    /\ lfd = "none"
    /\ lsub = NewSub
    /\ di = 0
    /\ warns = {}
    /\ lerr = "none"
    /\ lcap = "never"
    /\ lmode = 0
    /\ kmode = [fmt |-> 0, fps |-> 0]

\* no metadata is being read
InitNoParse ==
    /\ modalias = <<>>
    /\ mifile = <<>>
    /\ ppc = "idle"
    /\ parsed = Rejected("none")

\* the USB side of a device after construction
InitUsb ==
    /\ claimed_interfaces = <<>>
    /\ kclaimed = {}
    /\ granted = {}
    /\ nclaims = 0
    /\ relcalls = [n \in Ifaces |-> 0]
    /\ upc = "open"
    /\ ri = 0

\* query_devices is about to fold an enumerated sequence
InitGroup ==
    /\ input \in SeqsUpTo(SubTuples, MaxSubs)
    /\ gi = 1
    /\ gpc = "test"
    /\ devices = <<>>
    /\ InitStream
    /\ InitLife
    /\ InitNoParse
    /\ InitUsb

NextGroup ==
    \/ GroupTest /\ UNCHANGED nonGroup
    \/ GroupAppend /\ UNCHANGED nonGroup

SpecGroup == InitGroup /\ [][NextGroup]_vars

\* nothing is being enumerated
InitNoGroup ==
    /\ input = <<>>
    /\ gi = 1
    /\ gpc = "done"
    /\ devices = <<>>

Init ==
    /\ InitNoGroup
    /\ InitStream
    /\ InitLife
    /\ InitNoParse
    /\ InitUsb

Next ==
    \/ \E s \in Subs : SetFormat(s) /\ UNCHANGED nonStream
    \/ StartStreamingBegin /\ UNCHANGED nonStream
    \/ StartStreamingStep /\ UNCHANGED nonStream
    \/ StartStreamingSpawn /\ UNCHANGED nonStream
    \/ StopStreamingBegin /\ UNCHANGED nonStream
    \/ StopStreamingJoin /\ UNCHANGED nonStream
    \/ ThreadIterate /\ UNCHANGED nonStream
    \/ ThreadLoop /\ UNCHANGED nonStream
    \/ ThreadRequeue /\ UNCHANGED nonStream

Spec == Init /\ [][Next]_vars

\* the device used by a caller that enters start_streaming only while no
\* thread is joinable
NextNoRestart ==
    \/ \E s \in Subs : SetFormat(s) /\ UNCHANGED nonStream
    \/ ~Joinable /\ StartStreamingBegin /\ UNCHANGED nonStream
    \/ StartStreamingStep /\ UNCHANGED nonStream
    \/ StartStreamingSpawn /\ UNCHANGED nonStream
    \/ StopStreamingBegin /\ UNCHANGED nonStream
    \/ StopStreamingJoin /\ UNCHANGED nonStream
    \/ ThreadIterate /\ UNCHANGED nonStream
    \/ ThreadLoop /\ UNCHANGED nonStream
    \/ ThreadRequeue /\ UNCHANGED nonStream

SpecNoRestart == Init /\ [][NextNoRestart]_vars

\* the device under a scheduler that keeps the thread running: select returns
\* at the latest when its 10 ms timeout expires, every callback returns, a
\* raised flag is seen after finitely many reads, and join returns once the
\* thread has left its loop
SpecLive ==
    /\ Init
    /\ [][Next]_vars
    /\ WF_vars(ThreadIterate /\ UNCHANGED nonStream)
    /\ SF_vars(ThreadExit /\ UNCHANGED nonStream)
    /\ WF_vars(ThreadLoop /\ UNCHANGED nonStream)
    /\ WF_vars(ThreadRequeue /\ UNCHANGED nonStream)
    /\ WF_vars(StopStreamingJoin /\ UNCHANGED nonStream)

\* the constructor is about to read the metadata of one node
InitParse ==
    /\ InitNoGroup
    /\ InitStream
    /\ InitLife
    /\ InitUsb
    /\ \E in \in (Modaliases \X SampleMiFiles) \cup (SampleModaliases \X MiFiles) :
          /\ modalias = in[1]
          /\ mifile = in[2]
    /\ ppc = "read"
    /\ parsed = Rejected("none")

NextParse == ReadMetadata /\ UNCHANGED nonParse

SpecParse == InitParse /\ [][NextParse]_vars

\* one device whose interfaces are claimed and that is then destroyed
NextUsb ==
    \/ \E n \in Ifaces : ClaimInterface(n) /\ UNCHANGED <<svars, nonUsb>>
    \/ DeviceDtorBegin /\ UNCHANGED nonUsb
    \/ DeviceDtorRelease /\ UNCHANGED nonUsb
    \/ DeviceDtorClose /\ UNCHANGED nonUsb

SpecUsb == Init /\ [][NextUsb]_vars

\* one device that is used (configured, started, stopped, interfaces claimed)
\* while it exists and is then destroyed, with or without a running thread
NextTeardown ==
    \/ upc = "open" /\ (\E s \in Subs : SetFormat(s)) /\ UNCHANGED nonStream
    \/ upc = "open" /\ StartStreamingBegin /\ UNCHANGED nonStream
    \/ StartStreamingStep /\ UNCHANGED nonStream
    \/ StartStreamingSpawn /\ UNCHANGED nonStream
    \/ upc = "open" /\ StopStreamingBegin /\ UNCHANGED nonStream
    \/ StopStreamingJoin /\ UNCHANGED nonStream
    \/ ThreadIterate /\ UNCHANGED nonStream
    \/ ThreadLoop /\ UNCHANGED nonStream
    \/ ThreadRequeue /\ UNCHANGED nonStream
    \/ \E n \in Ifaces :
          Alive /\ cpc = "idle" /\ ClaimInterface(n) /\ UNCHANGED <<svars, nonUsb>>
    \/ DeviceDtorBegin /\ UNCHANGED nonUsb
    \/ DeviceDtorJoin /\ UNCHANGED nonUsb
    \/ DeviceDtorRelease /\ UNCHANGED nonUsb
    \/ DeviceDtorClose /\ UNCHANGED nonUsb

SpecTeardown == Init /\ [][NextTeardown]_vars

\* one subdevice: constructed, started any number of times, destroyed
NextLife ==
    \/ Construct /\ UNCHANGED nonLife
    \/ \E m \in Modes : LifeSetFormat(m) /\ UNCHANGED nonLife
    \/ StartCapture /\ UNCHANGED nonLife
    \/ DtorStreamoff /\ UNCHANGED nonLife
    \/ DtorMunmap /\ UNCHANGED nonLife
    \/ DtorReqbufs /\ UNCHANGED nonLife
    \/ DtorClose /\ UNCHANGED nonLife

SpecLife == Init /\ [][NextLife]_vars

\* ------------------------------------------------------------------------
\* properties of the grouping fold (SpecGroup)
\* ------------------------------------------------------------------------

Last(q) == q[Len(q)]

\* the rule as the design states it: a subdevice opens a new device when there
\* is none yet, when its vendor/product pair is not that of the last device,
\* or when the last device already holds its interface index
RefOpensDevice(acc, sub) ==
    \/ Len(acc) = 0
    \/ <<sub[1], sub[2]>> # <<Last(acc)[1][1], Last(acc)[1][2]>>
    \/ sub[3] \in {Last(acc)[k][3] : k \in DOMAIN Last(acc)}

RECURSIVE RefFold(_, _)
RefFold(rest, acc) ==
    IF rest = <<>> THEN acc
    ELSE RefFold(Tail(rest),
                 IF RefOpensDevice(acc, Head(rest))
                 THEN acc \o << <<Head(rest)>> >>
                 ELSE SubSeq(acc, 1, Len(acc) - 1) \o << Last(acc) \o <<Head(rest)>> >>)

RefGroup(seq) == RefFold(seq, <<>>)

\* the part of the input the loop has consumed
Consumed == SubSeq(input, 1, gi - 1)

RECURSIVE Flatten(_)
Flatten(devs) == IF devs = <<>> THEN <<>> ELSE Head(devs) \o Flatten(Tail(devs))

\* C1: at every loop head and on return, the device list built by
\* query_devices equals the reference fold of the subdevices consumed so far;
\* on return that is the reference fold of the whole input.
C1_GroupingIsReferenceFold ==
    /\ gpc \in {"test", "done"} => devices = RefGroup(Consumed)
    /\ gpc = "done" => devices = RefGroup(input)

\* all three split conditions and the append case were taken in one run
C1_Witness ==
    /\ gpc = "done"
    /\ Len(input) = 4
    /\ input[1] = <<1, 1, 0>> /\ input[2] = <<1, 1, 1>>
    /\ input[3] = <<1, 1, 1>> /\ input[4] = <<2, 1, 0>>
    /\ Len(devices) = 3

\* C2: every device of the list has one vendor id and one product id and no
\* interface index twice; (1,1,0),(1,1,0) gives two devices of one
\* subdevice each.
C2_DeviceInvariant ==
    /\ \A d \in 1..Len(devices) : \A i, j \in 1..Len(devices[d]) :
          /\ get_vid(devices[d][i]) = get_vid(devices[d][j])
          /\ get_pid(devices[d][i]) = get_pid(devices[d][j])
          /\ i # j => get_mi(devices[d][i]) # get_mi(devices[d][j])
    /\ (gpc = "done" /\ input = << <<1, 1, 0>>, <<1, 1, 0>> >>)
          => devices = << << <<1, 1, 0>> >>, << <<1, 1, 0>> >> >>

\* the duplicate interface index inside one vid/pid run has split the run
C2_Witness ==
    /\ gpc = "done"
    /\ input = << <<1, 1, 0>>, <<1, 1, 0>> >>
    /\ Len(devices) = 2

\* C3: the subdevice lists of the devices, concatenated in device order,
\* are the consumed input (nothing dropped, duplicated or reordered), and
\* (1,1,0),(1,1,1),(1,2,0),(1,2,1) gives two devices of two subdevices each.
C3_OrderPreserving ==
    /\ gpc \in {"test", "done"} => Flatten(devices) = Consumed
    /\ gpc = "done" => Flatten(devices) = input
    /\ (gpc = "done"
        /\ input = << <<1, 1, 0>>, <<1, 1, 1>>, <<1, 2, 0>>, <<1, 2, 1>> >>)
          => /\ Len(devices) = 2
             /\ devices[1] = << <<1, 1, 0>>, <<1, 1, 1>> >>
             /\ devices[2] = << <<1, 2, 0>>, <<1, 2, 1>> >>

C3_Witness ==
    /\ gpc = "done"
    /\ input = << <<1, 1, 0>>, <<1, 1, 1>>, <<1, 2, 0>>, <<1, 2, 1>> >>
    /\ Len(devices) = 2
    /\ Flatten(devices) = input

\* C27: grouping never produces an empty device.  Wherever the vendor and
\* product id of a device are read (in the test of the loop and in the
\* returned list) every device holds at least one subdevice; the only empty
\* device there ever is is the last one, between its creation and the
\* push_back of the subdevice it was created for; and there are never more
\* devices than subdevices taken from the input.
C27_NoEmptyDevice ==
    /\ gpc \in {"test", "done"} =>
          /\ \A d \in 1..Len(devices) : Len(devices[d]) >= 1
          /\ Len(devices) <= Len(Consumed)
    /\ gpc = "append" =>
          /\ \A d \in 1..(Len(devices) - 1) : Len(devices[d]) >= 1
          /\ Len(devices) <= Len(Consumed) + 1
    /\ Len(devices) <= Len(input)

\* a second device has just been created and is still empty, after a first
\* device of two subdevices
C27_Witness ==
    /\ gpc = "append"
    /\ Len(devices) = 2
    /\ Len(devices[1]) = 2
    /\ Back(devices) = <<>>

\* ------------------------------------------------------------------------
\* properties of the streaming device (Spec)
\* ------------------------------------------------------------------------

Range(q) == {q[k] : k \in 1..Len(q)}

WithCallback == {s \in Subs : subdevices[s].callback}

StartFailed == last.op = "start_streaming" /\ last.err \notin {"none", "noop"}

StartReturned == last = Done("start_streaming", 0, "none")

StopReturned == last = Done("stop_streaming", 0, "none")

StopWasNoop == last = Done("stop_streaming", 0, "noop")

PollErrors == {"select", "VIDIOC_DQBUF", "VIDIOC_QBUF", "assert", "bad_function_call"}

\* C4: when stop_streaming has returned no thread runs, and over the
\* start/stop cycles every region start_capture mapped is still recorded in
\* its subdevice's buffers or has been unmapped.
C4_RestartWithoutLeak ==
    /\ StopReturned => ~Joinable
    /\ \A s \in Subs : ~subdevices[s].orphaned

\* C5: stop_streaming with a joinable thread raises the flag, joins and
\* clears the flag, so the flag is up exactly while the caller is inside the
\* join and on return no thread is left; with no joinable thread the call
\* changes nothing of the device.
C5_StopStreaming ==
    /\ [](/\ stop <=> cpc = "joining"
          /\ cpc = "joining" => Joinable
          /\ (StopReturned \/ StopWasNoop) => (~Joinable /\ ~stop /\ nthreads = 0))
    /\ [][(cpc = "idle" /\ ~Joinable /\ last'.op = "stop_streaming")
            => UNCHANGED <<subdevices, stop, tpc, tsubs, pidx, lease, dq, nthreads,
                           crash, cpc, si>>]_vars

\* a second stop_streaming came after one that joined a thread which had streamed
C5_Witness ==
    /\ StopWasNoop
    /\ \E s \in Subs : subdevices[s].streamon /\ subdevices[s].callback

\* C6: a start_streaming that returns has called start_capture on exactly
\* the subdevices with a callback and left exactly one thread; the thread
\* polls exactly those subdevices, in order, and leaves its loop only with
\* the flag up; a subdevice without a callback is never started nor polled.
C6_StartStreaming ==
    /\ StartReturned =>
          /\ capcalls = WithCallback
          /\ nthreads = 1 /\ Joinable
          /\ \A s \in WithCallback : subdevices[s].streamon
    /\ Joinable =>
          /\ Range(tsubs) = WithCallback
          /\ \A i, j \in 1..Len(tsubs) : i < j => tsubs[i] < tsubs[j]
    /\ tpc = "exited" => stop
    /\ tpc = "cb" => (pidx \in 1..Len(tsubs) /\ subdevices[tsubs[pidx]].callback)
    /\ dq.sub # 0 => (Joinable /\ dq.sub \in Range(tsubs))
    /\ lease # 0 => tpc = "cb"
    /\ \A s \in Subs \ WithCallback :
          /\ subdevices[s].buffers = <<>>
          /\ ~subdevices[s].streamon
          /\ subdevices[s].kown = {}
          /\ s \notin capcalls

\* the thread runs a callback of the one configured subdevice while the
\* other subdevice has no callback
C6_Witness ==
    /\ StartReturned
    /\ tpc = "cb"
    /\ WithCallback # {} /\ WithCallback # Subs

\* C7: a start_capture that was granted fewer than 2 buffers fails with the
\* insufficient-buffers error and leaves its subdevice without any mapped
\* buffer.
C7_InsufficientLeavesNothingMapped ==
    (last.op = "start_streaming" /\ last.err = "insufficient")
        => CountM(subdevices[last.sub].buffers) = 0

\* C8: no slot is given to the callback more than once between two
\* VIDIOC_QBUF of that slot.
C8_NoDoubleDelivery ==
    \A s \in Subs : \A k \in Slots : subdevices[s].exposed[k] <= 1

\* a slot is in the hands of the callback
C8_Witness ==
    /\ tpc = "cb"
    /\ subdevices[tsubs[pidx]].exposed[lease] = 1
    /\ lease \notin subdevices[tsubs[pidx]].kown

\* C9: a callback only ever runs on a VIDIOC_DQBUF that succeeded for its
\* subdevice; after one that reported EAGAIN poll has returned, no buffer is
\* held and no error was raised by poll.
C9_EagainIsSilent ==
    /\ tpc = "cb" => dq = [sub |-> tsubs[pidx], res |-> "ok"]
    /\ dq.res = "EAGAIN" =>
          /\ tpc \in {"idle", "exited"}
          /\ lease = 0
          /\ crash \notin PollErrors
    /\ crash = "VIDIOC_DQBUF" => dq.res = "error"

\* poll has returned on EAGAIN and the thread is back at its loop condition
C9_Witness ==
    /\ dq.res = "EAGAIN"
    /\ tpc = "idle"
    /\ Alive

\* C10: after a start_streaming that failed in start_capture the device has
\* no thread: none was spawned and the device is not streaming.
C10_FailedStartNotStreaming ==
    StartFailed => (~Joinable /\ nthreads = 0)

\* what the code does guarantee of a start_streaming that failed in
\* start_capture: the failure reaches the caller at the failing subdevice,
\* no later subdevice is started and the call starts no thread, so the
\* device has a thread afterwards exactly if it had one on entry.
FailedStartSpawnsNothing ==
    /\ (cpc = "starting" /\ Alive) =>
          /\ Joinable <=> wasStreaming
          /\ nthreads = IF wasStreaming THEN 1 ELSE 0
    /\ StartFailed =>
          /\ Joinable <=> wasStreaming
          /\ nthreads = IF wasStreaming THEN 1 ELSE 0
          /\ cpc = "idle" /\ si = 0
          /\ last.sub \in capcalls
          /\ \A s \in capcalls : s <= last.sub

\* the second subdevice failed after the first was started; no thread
FailedStartAfterFirstStarted ==
    /\ StartFailed
    /\ last.sub = 2
    /\ subdevices[1].streamon
    /\ ~Joinable

\* C11: after a start_streaming that failed in start_capture, no subdevice
\* that the same call had started before the failing one is left with
\* capture enabled or with buffers mapped.
C11_FailedStartReleasesEarlier ==
    StartFailed =>
        \A s \in capcalls \ {last.sub} :
            /\ ~subdevices[s].streamon
            /\ CountM(subdevices[s].buffers) = 0

\* C16: every invocation of a frame callback is given the address of the
\* delivered buffer and the used-byte count the kernel reported for it.
C16_CallbackGetsAddressAndSize ==
    tpc = "cb" =>
        /\ Len(cbargs) = 2
        /\ cbargs[1] = lease
        /\ cbargs[2] \in BytesUsed

\* C19: a poll round that ends without an error has handled every
\* subdevice whose descriptor select reported ready; an EAGAIN on one
\* subdevice does not keep the other ready subdevices from being handled in
\* that round.
C19_RoundHandlesEveryReady ==
    (tpc = "idle" /\ Alive) => ready = {}

\* C20: when stop_streaming is called while the thread runs, and every
\* callback returns, the thread eventually sees the flag and leaves its
\* loop and stop_streaming returns.
C20_StopEventuallyReturns ==
    (cpc = "joining") ~> StopReturned

\* what the code does guarantee: stop_streaming returns unless a failure
\* inside poll has ended the process in the meantime
StopReturnsUnlessPollFails ==
    (cpc = "joining") ~> (StopReturned \/ ~Alive)

\* C21: failures of the wait are partitioned.  After EINTR the round has
\* returned with no dequeue, no callback and no error; after any other
\* failure of select the round has raised the error "select", also with no
\* dequeue and no callback.  The step in which select fails changes no
\* buffer's owner.
C21_WaitFailuresPartitioned ==
    /\ [](selerr = "EINTR" =>
            /\ tpc = "idle" /\ crash \notin PollErrors
            /\ dq = NoDq /\ lease = 0 /\ cbargs = <<>> /\ ready = {})
    /\ [](selerr = "error" =>
            /\ crash = "select"
            /\ dq = NoDq /\ lease = 0 /\ cbargs = <<>> /\ ready = {})
    /\ [][(selerr' # selerr /\ selerr' # "none") =>
            UNCHANGED <<subdevices, lease, cbargs>>]_vars

\* select is interrupted while a streaming subdevice has buffers queued
C21_Witness ==
    /\ selerr = "EINTR" /\ tpc = "idle"
    /\ \E k \in 1..Len(tsubs) :
          subdevices[tsubs[k]].streamon /\ subdevices[tsubs[k]].kown # {}

\* select fails with another errno
C21_WitnessError == selerr = "error" /\ crash = "select"

\* C25: a device has at most one streaming thread in every reachable state,
\* also when start_streaming is called again without a stop_streaming in
\* between: the second call starts no second poller and does not assign over
\* a thread that is still running.
C25_AtMostOneThread ==
    /\ nthreads <= 1
    /\ crash # "thread_assign"

\* what the code does guarantee: a second thread and the assignment over a
\* running thread happen only in a start_streaming that was entered while a
\* thread was joinable
SecondThreadOnlyOnRestart ==
    (nthreads > 1 \/ crash = "thread_assign") => wasStreaming

\* the slot subdevice s has on lease to the callback in progress, if any
LeaseOf(s) ==
    IF lease # 0 /\ pidx \in 1..Len(tsubs) /\ tsubs[pidx] = s THEN {lease} ELSE {}

\* C26: buffer leases are conserved.  While the process runs, every slot of
\* a streaming subdevice is either queued in the kernel or on lease to the
\* callback in progress, never both; a slot is on lease only while a callback
\* runs and is a slot of that subdevice's pool; no dequeued index is outside
\* the pool; and when the thread has exited after a stop request no slot is
\* on lease and the kernel holds every slot of every polled subdevice.
C26_LeaseConservation ==
    /\ crash # "assert"
    /\ Alive =>
          /\ \A s \in Subs :
                subdevices[s].streamon =>
                   /\ subdevices[s].kown \cup LeaseOf(s) = 1..Len(subdevices[s].buffers)
                   /\ subdevices[s].kown \cap LeaseOf(s) = {}
          /\ lease # 0 =>
                /\ tpc = "cb"
                /\ lease \in 1..Len(subdevices[tsubs[pidx]].buffers)
          /\ (tpc = "exited" /\ stop) =>
                /\ lease = 0
                /\ \A k \in 1..Len(tsubs) :
                      subdevices[tsubs[k]].kown = 1..Len(subdevices[tsubs[k]].buffers)

\* a callback of a streaming subdevice is running on a leased slot
LeaseOutstanding ==
    /\ Alive /\ tpc = "cb" /\ lease # 0
    /\ subdevices[tsubs[pidx]].streamon

\* ------------------------------------------------------------------------
\* properties of one subdevice from construction to destruction (SpecLife)
\* ------------------------------------------------------------------------

\* the destructor has been left, by its end or by an exception
Destructed == lpc \in {"destroyed", "dtor_threw"}

\* C12: when the constructor fails after the node was opened, the
\* descriptor it opened is closed: a subdevice whose construction failed
\* holds no open descriptor.
C12_CtorFailureClosesFd ==
    lpc = "ctor_threw" => lfd # "open"

\* C13: for a subdevice whose latest start_capture mapped all its buffers
\* and then failed at VIDIOC_STREAMON, the destructor unmaps every one of
\* them: once its munmap loop is over no mapping of that pool is left.
C13_DtorUnmapsAfterStreamonFailure ==
    lcap = "VIDIOC_STREAMON" =>
        /\ Len(lsub.buffers) >= MinBuffers
        /\ lpc = "alive" => \A k \in 1..Len(lsub.buffers) : lsub.buffers[k] = "M"
        /\ lpc \in {"d_close", "destroyed", "dtor_threw"} =>
               \A k \in 1..Len(lsub.buffers) : lsub.buffers[k] = "U"

\* the subdevice was destroyed after a start_capture that failed at
\* VIDIOC_STREAMON with its pool mapped
C13_Witness ==
    /\ lcap = "VIDIOC_STREAMON"
    /\ lpc = "destroyed"
    /\ Len(lsub.buffers) >= MinBuffers
    /\ \A k \in 1..Len(lsub.buffers) : lsub.buffers[k] = "U"

\* C14: the destructor is never left by an exception, whichever of its
\* steps fails.
C14_DtorNeverThrows ==
    lpc # "dtor_threw"

\* C15: once a subdevice has been destroyed, from whatever state and
\* whichever teardown steps failed, its descriptor has been closed.
C15_FdClosedAfterDestruction ==
    Destructed => lfd = "closed"

\* C23: every buffer is mapped before its subdevice streams, and every
\* mapping that was created is unmapped exactly once, by the end of the
\* destruction at the latest: no mapping is left without an unmap, and no
\* munmap is issued for an entry that holds no live mapping (a slot that was
\* never mapped, or one already unmapped).
C23_MappedOnceUnmappedOnce ==
    /\ (lpc = "alive" /\ lsub.streamon) =>
          /\ Len(lsub.buffers) >= MinBuffers
          /\ \A k \in 1..Len(lsub.buffers) : lsub.buffers[k] = "M"
    /\ ~lsub.orphaned
    /\ Destructed => CountM(lsub.buffers) = 0
    /\ "munmap" \notin warns

\* what would hold of a subdevice no start_capture has dropped a mapping of,
\* if the destructor issued munmap only for live mappings
MunmapOnlyOfMappings == ~lsub.orphaned => "munmap" \notin warns

\* C24: set_format is pure configuration.  A set_format step leaves the
\* kernel's format, the buffer pool, the queue and the streaming state as
\* they are; the kernel's format and frame rate change only in start_capture
\* and only to the values stored by the latest set_format; a start_capture
\* that returns has given the kernel exactly those values.
C24_SetFormatIsPureConfiguration ==
    /\ [][(\E m \in Modes : LifeSetFormat(m)) =>
            /\ UNCHANGED <<kmode, lfd>>
            /\ lsub'.buffers = lsub.buffers
            /\ lsub'.kown = lsub.kown
            /\ lsub'.streamon = lsub.streamon]_vars
    /\ [][kmode' # kmode =>
            /\ lmode' = lmode
            /\ kmode'.fmt = lmode
            /\ kmode'.fps \in {kmode.fps, lmode}]_vars
    /\ [][(StartCapture /\ lcap' = "none") =>
            kmode' = [fmt |-> lmode, fps |-> lmode]]_vars

\* the subdevice streams in the second mode: set_format was called with it
\* and a later start_capture returned
C24_Witness ==
    /\ lpc = "alive" /\ lcap = "none" /\ lsub.streamon
    /\ lmode = 2 /\ kmode = [fmt |-> 2, fps |-> 2]

\* ------------------------------------------------------------------------
\* properties of the metadata read by the constructor (SpecParse)
\* ------------------------------------------------------------------------

RECURSIVE Pow16(_)
Pow16(n) == IF n = 0 THEN 1 ELSE 16 * Pow16(n - 1)

RECURSIVE RefValue(_)
\* the number a string of hex digits denotes
RefValue(f) ==
    IF f = <<>> THEN 0 ELSE HexValue(Head(f)) * Pow16(Len(f) - 1) + RefValue(Tail(f))

AllHex(f) == f # <<>> /\ \A k \in 1..Len(f) : IsHex(f[k])

\* "usb:v" + 4 hex digits + "p" + 4 hex digits + anything
WellFormed(m) ==
    /\ Len(m) >= 14
    /\ SubSeq(m, 1, 5) = <<"u", "s", "b", ":", "v">>
    /\ m[10] = "p"
    /\ AllHex(SubSeq(m, 6, 9))
    /\ AllHex(SubSeq(m, 11, 14))

WrongPrefixOrLength(m) ==
    Len(m) < 14 \/ SubSeq(m, 1, 5) # <<"u", "s", "b", ":", "v">>

\* well-formed metadata parses to the values encoded; a wrong prefix or
\* length is rejected
ParsesWellFormed ==
    ppc = "done" =>
        /\ (WellFormed(modalias) /\ AllHex(mifile)) =>
               parsed = [err |-> "none",
                         vid |-> RefValue(SubSeq(modalias, 6, 9)),
                         pid |-> RefValue(SubSeq(modalias, 11, 14)),
                         mi  |-> RefValue(mifile)]
        /\ WrongPrefixOrLength(modalias) =>
               parsed.err \in {"modalias_read", "modalias_format"}

\* C17 as stated: well-formed metadata parses to the exact hex values
\* encoded, a wrong prefix or length is rejected, and
\* "usb:v8086pA66Dxxxx" (in either case of its digits) yields vendor 0x8086
\* and product 0xA66.
C17_ExampleYieldsA66 ==
    /\ ParsesWellFormed
    /\ (ppc = "done" /\ modalias \in {ExampleModalias, ExampleLowered} /\ AllHex(mifile)) =>
           /\ parsed.vid = 8 * 4096 + 0 * 256 + 8 * 16 + 6
           /\ parsed.pid = 10 * 256 + 6 * 16 + 6

\* C17: well-formed metadata parses to the exact hex values encoded, a
\* wrong prefix or length is rejected, and "usb:v8086pA66Dxxxx" (in either
\* case of its digits) yields vendor 0x8086 and product 0xA66D, the four
\* characters after the p.
C17_ParsesExactHexValues ==
    /\ ParsesWellFormed
    /\ (ppc = "done" /\ modalias \in {ExampleModalias, ExampleLowered} /\ AllHex(mifile)) =>
           /\ parsed.vid = 8 * 4096 + 0 * 256 + 8 * 16 + 6
           /\ parsed.pid = 10 * 4096 + 6 * 256 + 6 * 16 + 13

\* the example has been parsed, with an interface number
C17_Witness ==
    /\ ppc = "done"
    /\ modalias = ExampleModalias
    /\ mifile = <<"0", "1">>
    /\ parsed.err = "none"
    /\ parsed.mi = 1

\* ------------------------------------------------------------------------
\* properties of the USB side of a device (SpecUsb)
\* ------------------------------------------------------------------------

\* C18: the claimed interfaces form a set: an interface is recorded exactly
\* if a claim of it succeeded, each recorded interface appears once, and
\* the destructor releases every recorded interface exactly once.
C18_ClaimedInterfacesFormASet ==
    /\ Range(claimed_interfaces) = granted
    /\ \A i, j \in 1..Len(claimed_interfaces) :
          i < j => claimed_interfaces[i] # claimed_interfaces[j]
    /\ upc = "closed" =>
          \A n \in Ifaces : relcalls[n] = IF n \in granted THEN 1 ELSE 0

\* ------------------------------------------------------------------------
\* properties of the teardown of a device (SpecTeardown)
\* ------------------------------------------------------------------------

\* C22: in ~device the thread is stopped and joined before any claimed
\* interface is released, every claimed interface has been released when the
\* handle is closed and the device reference dropped, and no callback runs
\* once the first interface has been released.
C22_TeardownOrder ==
    /\ upc \in {"open", "joining"} => \A n \in Ifaces : relcalls[n] = 0
    /\ upc \in {"releasing", "closed"} =>
          /\ tpc = "none" /\ nthreads = 0
          /\ lease = 0 /\ cbargs = <<>>
    /\ upc = "closed" =>
          /\ \A k \in 1..Len(claimed_interfaces) : relcalls[claimed_interfaces[k]] >= 1
          /\ \A n \in granted : relcalls[n] >= 1

\* a device destroyed while its thread was running and interfaces were claimed
C22_Witness ==
    /\ upc = "closed" /\ stop
    /\ claimed_interfaces # <<>>
    /\ \E s \in Subs : subdevices[s].streamon

====
